---- MODULE Spec2Model ----
(***************************************************************************)
(* SpeedFan2InfluxDB: the metric catalog built by SpeedFan.__init__ /      *)
(* SpeedFan._get_metrics and the incremental import of SpeedFan.parse_logs *)
(* (src/speedfan2influx.py).                                               *)
(*                                                                         *)
(* Instants are UTC seconds since the epoch.  The log files' dates are     *)
(* local dates, TzOffset seconds east of UTC.  A run is one process: the   *)
(* constructor, then parse_logs.  A re-run is a new process over the same  *)
(* configuration, the same log directory and the store as the first run    *)
(* left it.                                                                *)
(*                                                                         *)
(* The log reader is modelled for header names equal to the catalog's      *)
(* header (LogAddHeader off, or on with the header row SpeedFan writes).   *)
(***************************************************************************)
EXTENDS Integers, Sequences, FiniteSets, TLC

VARIABLES
    blocks,     \* speedfansens.cfg after _parse_metric_block: the blocks, in file order
    logdir,     \* the SFLog*.csv files glob returns, in glob's order
    store,      \* the points the InfluxDB database holds for this host
    run,        \* 1: the first run, 2: the re-run
    pc,         \* where the run is
    err,        \* the exception that ended the run, or "none"
    bi,         \* _get_metrics: index of the next block
    header,     \* self.header
    metrics,    \* self.metrics
    metric,     \* the local variable `metric` of _get_metrics
    last,       \* the local variable `last` of parse_logs
    fi,         \* parse_logs: index of the current log file
    ri,         \* parse_logs: index of the next row of the current file
    buffer,     \* the four SeriesHelper classes' _datapoints
    emitted,    \* history: the Points constructed in this run, with their file and row
    opened,     \* history: the indexes of the files this run opened
    resolved,   \* history: the number of find_last calls of this run
    writes,     \* history: the number of write_points calls of this run
    store0,     \* history: the store when this run started
    emitted1    \* history: the Points the first run constructed

vars == << blocks, logdir, store, run, pc, err, bi, header, metrics,
           metric, last, fi, ri, buffer, emitted, opened, resolved, writes,
           store0, emitted1 >>

(***************************************************************************)
(* Bounds and program constants                                            *)
(***************************************************************************)
MaxBlocks == 2          \* config blocks of the catalog specification
MaxRows == 1            \* rows of a log file
LongRows == 100         \* rows of the one long log file
BulkSize == 100         \* Meta.bulk_size
TzOffset == 3600        \* self.tzinfo: the local zone, seconds east of UTC
DayLen == 86400         \* seconds of a calendar day
Epoch == 0              \* arrow.get(0)

Days == {1, 2}                              \* the dates of the log files
SecondsValues == {10, 30, DayLen + 30}         \* the Seconds column of a row
CellTexts == {"45", "4.5", "x"}             \* the text of a row's data cells
KnownKinds == {"Temp", "Pwm", "Fan", "Volt"}
Kinds == KnownKinds \cup {"Other"}
Names == {"A", "B"}
NoMetric == [type |-> "unbound"]            \* `metric` before its first assignment

SeqsUpTo(S, n) == UNION {[1..k -> S] : k \in 0..n}

Max(S) == CHOOSE x \in S : \A y \in S : y <= x

Range(s) == {s[i] : i \in 1..Len(s)}

(***************************************************************************)
(* The inputs                                                              *)
(***************************************************************************)
\* A parsed block: (source, metric_type, index, params), reduced to what
\* _get_metrics branches on.
Block == [kind : Kinds, active : BOOLEAN, logged : BOOLEAN, name : Names]

LoggedBlock(k, n) == [kind |-> k, active |-> TRUE, logged |-> TRUE, name |-> n]

\* The configurations of the import specification.
IngestConfigs ==
    { << LoggedBlock("Temp", "A") >>,
      << LoggedBlock("Fan", "A"), LoggedBlock("Temp", "B") >>,
      << LoggedBlock("Pwm", "A"), LoggedBlock("Volt", "B") >>,
      << LoggedBlock("Temp", "A"), LoggedBlock("Fan", "A") >>,
      << LoggedBlock("Temp", "A"), LoggedBlock("Other", "B") >>,
      << LoggedBlock("Other", "A") >> }

\* A log row: the Seconds column, and the text its data cells hold.
Row == [secs : SecondsValues, cell : CellTexts]

\* The orders glob may return the files of the dates S in.
Orders(S) == {o \in [1..Cardinality(S) -> S] : \A d \in S : \E i \in DOMAIN o : o[i] = d}

\* The files of the dates o, in that order, with rows f.
FilesOf(o, f) == [i \in DOMAIN o |-> [day |-> o[i], rows |-> f[o[i]]]]

\* A log directory: for each date no file, or a file of at most MaxRows rows.
LogDirs ==
    UNION { {FilesOf(o, f) : o \in Orders(S), f \in [S -> SeqsUpTo(Row, MaxRows)]}
            : S \in SUBSET Days }

\* One file of LongRows rows, one second apart.
LongDir ==
    << [day |-> 1, rows |-> [j \in 1..LongRows |-> [secs |-> j, cell |-> "45"]]] >>

(***************************************************************************)
(* Time                                                                    *)
(***************************************************************************)
\* arrow.get(basename[5:13], 'YYYYMMDD').replace(tzinfo=self.tzinfo): local
\* midnight of the file's date, as an instant.
LogTime(day) == day * DayLen - TzOffset

\* logtime.shift(seconds=int(log['Seconds']))
Timestamp(day, secs) == LogTime(day) + secs

\* logtime.date(): the date of the file, in the local zone.
LogDate(day) == (LogTime(day) + TzOffset) \div DayLen

\* last.date(): the watermark's date in the zone it carries, the local zone
\* when it came from the store and UTC when it is arrow.get(0).
LastDate(t) == IF t = Epoch THEN Epoch \div DayLen ELSE (t + TzOffset) \div DayLen

FileSkippedNever(day, t) == FALSE

FileSkippedSameDate(day, t) == LogDate(day) <= LastDate(t)

\* if logtime.date() < last.date(): continue
FileSkipped(day, t) == LogDate(day) < LastDate(t)

\* if timestamp < last: continue
RowSkipped(ts, t) == ts < t

(***************************************************************************)
(* The store                                                               *)
(***************************************************************************)
\* Meta.series_name of the four SeriesHelper classes (UseCelsius on).
SeriesName(type) ==
    CASE type = "temp" -> "degC"
      [] type = "pwm" -> "%"
      [] type = "fan" -> "RPM"
      [] type = "volt" -> "V"

StoredPoint(day, secs) ==
    [series |-> "degC", metric |-> "A", time |-> Timestamp(day, secs),
     value |-> [type |-> "float", tenths |-> 450]]

\* What the database holds before the first run.
InitialStores == { {}, {StoredPoint(1, 10)}, {StoredPoint(2, 20)} }

\* find_last: SELECT LAST(value) of every series, reduced to the maximum.
FindLast(st) ==
    LET series == {p.series : p \in st}
        seriesLast(s) == Max({p.time : p \in {q \in st : q.series = s}})
        later == {t \in {seriesLast(s) : s \in series} : Epoch < t}
    IN  IF later = {} THEN Epoch ELSE Max(later)

\* client.write_points: a point replaces the stored point of its series, tags
\* and time.
WritePoints(st, pts) ==
    {p \in st : ~ \E q \in pts : /\ q.series = p.series
                                 /\ q.metric = p.metric
                                 /\ q.time = p.time} \cup pts

(***************************************************************************)
(* The catalog: __init__ and _get_metrics                                  *)
(***************************************************************************)
\* The metric dictionary _get_metrics builds for a block of a known kind.
MakeMetric(b) ==
    CASE b.kind = "Temp" -> [type |-> "temp", function |-> "float", metric |-> b.name]
      [] b.kind = "Pwm" -> [type |-> "pwm", function |-> "float", metric |-> b.name]
      [] b.kind = "Fan" -> [type |-> "fan", function |-> "int", metric |-> b.name]
      [] b.kind = "Volt" -> [type |-> "volt", function |-> "float", metric |-> b.name]

\* self.metrics[name] = m
PutMetric(ms, name, m) ==
    [n \in DOMAIN ms \cup {name} |-> IF n = name THEN m ELSE ms[n]]

\* One iteration of the loop of _get_metrics, on block bi.  The if/elif chain
\* has no else: for a label outside the four kinds `metric` keeps the value
\* of the previous logged block, or is unbound when there was none.
GetMetricsStep ==
    /\ pc = "init"
    /\ bi <= Len(blocks)
    /\ LET b == blocks[bi]
       IN  IF ~ (b.active /\ b.logged)
           THEN /\ bi' = bi + 1
                /\ UNCHANGED << header, metrics, metric, pc, err >>
           ELSE /\ header' = Append(header, b.name)
                /\ IF b.kind \in KnownKinds
                   THEN /\ metric' = MakeMetric(b)
                        /\ metrics' = PutMetric(metrics, b.name, MakeMetric(b))
                        /\ bi' = bi + 1
                        /\ UNCHANGED << pc, err >>
                   ELSE IF metric = NoMetric
                        THEN /\ pc' = "failed"
                             /\ err' = "UnboundLocalError"
                             /\ UNCHANGED << metrics, metric, bi >>
                        ELSE /\ metrics' = PutMetric(metrics, b.name, metric)
                             /\ bi' = bi + 1
                             /\ UNCHANGED << metric, pc, err >>
    /\ UNCHANGED << blocks, logdir, store, run, last, fi, ri, buffer, emitted,
                    opened, resolved, writes, store0, emitted1 >>

\* The loop of _get_metrics ends and the constructor returns.
GetMetricsDone ==
    /\ pc = "init"
    /\ bi > Len(blocks)
    /\ pc' = "built"
    /\ UNCHANGED << blocks, logdir, store, run, err, bi, header, metrics, metric,
                    last, fi, ri, buffer, emitted, opened, resolved, writes,
                    store0, emitted1 >>

(***************************************************************************)
(* The import: parse_logs                                                  *)
(***************************************************************************)
\* float(text)
FloatOf(text) ==
    CASE text = "45" -> [ok |-> TRUE, value |-> [type |-> "float", tenths |-> 450]]
      [] text = "4.5" -> [ok |-> TRUE, value |-> [type |-> "float", tenths |-> 45]]
      [] OTHER -> [ok |-> FALSE, value |-> [type |-> "none", tenths |-> 0]]

\* int(text)
IntOf(text) ==
    CASE text = "45" -> [ok |-> TRUE, value |-> [type |-> "int", tenths |-> 450]]
      [] OTHER -> [ok |-> FALSE, value |-> [type |-> "none", tenths |-> 0]]

\* self.metrics[name]['function'](text)
Coerce(function, text) == IF function = "int" THEN IntOf(text) ELSE FloatOf(text)

\* The SeriesHelper classes, by the metric type parse_logs dispatches on.
Classes == {"temp", "pwm", "fan", "volt"}

\* SeriesHelper.__init__ with Meta.autocommit: the point joins the class's
\* _datapoints, and when these number bulk_size or more they are written
\* and the list is emptied.
Construct(st, pt, f, r) ==
    LET cls == pt.cls
        buf == Append(st.buffer[cls], pt.point)
        st1 == [st EXCEPT !.emitted = Append(@, [point |-> pt.point, file |-> f, row |-> r])]
    IN  IF Len(buf) >= BulkSize
        THEN [st1 EXCEPT !.buffer[cls] = << >>,
                         !.store = WritePoints(@, Range(buf)),
                         !.writes = @ + 1]
        ELSE [st1 EXCEPT !.buffer[cls] = buf]

\* The Point parse_logs constructs for column `name` of a row at instant ts.
PointOf(name, ts, value) ==
    [cls |-> metrics[name].type,
     point |-> [series |-> SeriesName(metrics[name].type),
                metric |-> metrics[name].metric,
                time |-> ts,
                value |-> value]]

\* for name in self.header[1:]: from column k on.  A failed conversion
\* raises out of parse_logs.
RECURSIVE EmitCells(_, _, _, _, _, _)
EmitCells(k, ts, row, f, r, st) ==
    IF k > Len(header)
    THEN st
    ELSE LET v == Coerce(metrics[header[k]].function, row.cell)
         IN  IF ~ v.ok
             THEN [st EXCEPT !.ok = FALSE]
             ELSE EmitCells(k + 1, ts, row, f, r,
                            Construct(st, PointOf(header[k], ts, v.value), f, r))

LoopWatermarkRequeried == [last |-> FindLast(store), resolved |-> resolved + 1]

\* The watermark the loop of parse_logs filters by: `last`, assigned before
\* the loop and read in it; find_last is not called again.
LoopWatermark == [last |-> last, resolved |-> resolved]

\* parse_logs up to its loop: the clients are set, glob lists the files and
\* find_last queries the store, which answers or raises.
ParseLogsStart ==
    /\ pc = "built"
    /\ resolved' = resolved + 1
    /\ \/ /\ last' = FindLast(store)
          /\ pc' = "files"
          /\ fi' = 1
          /\ err' = err
       \/ /\ pc' = "failed"
          /\ err' = "StoreError"
          /\ UNCHANGED << last, fi >>
    /\ UNCHANGED << blocks, logdir, store, run, bi, header, metrics, metric, ri,
                    buffer, emitted, opened, writes, store0, emitted1 >>

\* for logfile in logfiles: the date check, then the file is opened.
FileStep ==
    /\ pc = "files"
    /\ fi <= Len(logdir)
    /\ last' = LoopWatermark.last
    /\ resolved' = LoopWatermark.resolved
    /\ IF FileSkipped(logdir[fi].day, last')
       THEN /\ fi' = fi + 1
            /\ UNCHANGED << pc, ri, opened >>
       ELSE /\ opened' = opened \cup {fi}
            /\ pc' = "rows"
            /\ ri' = 1
            /\ fi' = fi
    /\ UNCHANGED << blocks, logdir, store, run, err, bi, header, metrics, metric,
                    buffer, emitted, writes, store0, emitted1 >>

\* for log in logs: one row, all its columns.
RowStep ==
    /\ pc = "rows"
    /\ ri <= Len(logdir[fi].rows)
    /\ LET row == logdir[fi].rows[ri]
           ts == Timestamp(logdir[fi].day, row.secs)
           st == [buffer |-> buffer, store |-> store, emitted |-> emitted,
                  writes |-> writes, ok |-> TRUE]
           out == IF RowSkipped(ts, last) THEN st ELSE EmitCells(2, ts, row, fi, ri, st)
       IN  /\ buffer' = out.buffer
           /\ store' = out.store
           /\ emitted' = out.emitted
           /\ writes' = out.writes
           /\ IF out.ok
              THEN /\ ri' = ri + 1
                   /\ UNCHANGED << pc, err >>
              ELSE /\ pc' = "failed"
                   /\ err' = "ValueError"
                   /\ ri' = ri
    /\ UNCHANGED << blocks, logdir, run, bi, header, metrics, metric, last, fi,
                    opened, resolved, store0, emitted1 >>

\* The rows of the file are exhausted.
FileEnd ==
    /\ pc = "rows"
    /\ ri > Len(logdir[fi].rows)
    /\ pc' = "files"
    /\ fi' = fi + 1
    /\ UNCHANGED << blocks, logdir, store, run, err, bi, header, metrics, metric,
                    last, ri, buffer, emitted, opened, resolved, writes, store0,
                    emitted1 >>

\* The files are exhausted and parse_logs returns; nothing follows its loop.
ParseLogsDone ==
    /\ pc = "files"
    /\ fi > Len(logdir)
    /\ pc' = "done"
    /\ UNCHANGED << blocks, logdir, store, run, err, bi, header, metrics, metric,
                    last, fi, ri, buffer, emitted, opened, resolved, writes,
                    store0, emitted1 >>

EmptyBuffers == [c \in Classes |-> << >>]

\* The script is run again after a completed run: a new process, whose
\* SeriesHelper classes start empty, over the same files and the store as
\* the first run left it.
Rerun ==
    /\ pc = "done"
    /\ run = 1
    /\ run' = 2
    /\ pc' = "init"
    /\ err' = "none"
    /\ bi' = 1
    /\ header' = << "Seconds" >>
    /\ metrics' = << >>
    /\ metric' = NoMetric
    /\ last' = Epoch
    /\ fi' = 0
    /\ ri' = 0
    /\ buffer' = EmptyBuffers
    /\ emitted' = << >>
    /\ opened' = {}
    /\ resolved' = 0
    /\ writes' = 0
    /\ store0' = store
    /\ emitted1' = emitted
    /\ UNCHANGED << blocks, logdir, store >>

(***************************************************************************)
(* The specifications                                                      *)
(***************************************************************************)
\* The process as __init__ enters _get_metrics (lines 102, 106).
Started ==
    /\ run = 1
    /\ pc = "init"
    /\ err = "none"
    /\ bi = 1
    /\ header = << "Seconds" >>
    /\ metrics = << >>
    /\ metric = NoMetric
    /\ last = Epoch
    /\ fi = 0
    /\ ri = 0
    /\ buffer = EmptyBuffers
    /\ emitted = << >>
    /\ opened = {}
    /\ resolved = 0
    /\ writes = 0
    /\ store0 = store
    /\ emitted1 = << >>

Init ==
    /\ blocks \in IngestConfigs
    /\ logdir \in LogDirs \cup {LongDir}
    /\ store \in InitialStores
    /\ Started

Next ==
    \/ GetMetricsStep
    \/ GetMetricsDone
    \/ ParseLogsStart
    \/ FileStep
    \/ RowStep
    \/ FileEnd
    \/ ParseLogsDone
    \/ Rerun

Spec == Init /\ [][Next]_vars

\* The catalog alone, over every configuration of at most MaxBlocks blocks.
InitCatalog ==
    /\ blocks \in SeqsUpTo(Block, MaxBlocks)
    /\ logdir = << >>
    /\ store = {}
    /\ Started

NextCatalog ==
    \/ GetMetricsStep
    \/ GetMetricsDone

SpecCatalog == InitCatalog /\ [][NextCatalog]_vars

(***************************************************************************)
(* The claims                                                              *)
(***************************************************************************)
Points(es) == {es[i].point : i \in 1..Len(es)}

RowsOf(es) == {<< es[i].file, es[i].row >> : i \in 1..Len(es)}

\* The blocks that are both active and logged, in file order.
LoggedBlocks == SelectSeq(blocks, LAMBDA b : b.active /\ b.logged)

\* parse_logs is past find_last: `last` is this run's watermark.
Resolved == pc \in {"files", "rows", "done"} \/ (pc = "failed" /\ err = "ValueError")

\* The file is dated before the watermark's date.
Older(i) == logdir[i].day < (IF last = Epoch THEN 0 ELSE (last + TzOffset) \div DayLen)

RowInstant(i, j) == logdir[i].day * DayLen - TzOffset + logdir[i].rows[j].secs

AllRows == {<< i, j >> \in (1..Len(logdir)) \X (1..LongRows + MaxRows) :
                j <= Len(logdir[i].rows)}

\* C1: after a completed run whose points are all in the store, a re-run over
\* the same log directory, its watermark resolved from that store, constructs
\* no Point.
C1_IdempotentRerun ==
    (run = 2 /\ pc = "done" /\ Points(emitted1) \subseteq store0) => emitted = << >>

\* C2: every Point parse_logs constructs has a timestamp strictly after the
\* watermark; a row at the watermark is skipped.
C2_RowLevelSkip ==
    \A i \in 1..Len(emitted) : emitted[i].point.time > last

\* C3: when parse_logs returns, every Point it constructed has been handed
\* to write_points; none is left in a series helper's buffer.
C3_NoPointLeftBuffered ==
    pc = "done" => \A c \in Classes : buffer[c] = << >>

\* C4: _get_metrics never gets past an active and logged block whose kind
\* label is none of Temp, Pwm, Fan, Volt: the build fails there.
C4_UnknownKindFails ==
    \A i \in 1..Len(blocks) :
        (blocks[i].active /\ blocks[i].logged /\ blocks[i].kind \notin KnownKinds)
            => bi <= i

\* C5: the built catalog holds exactly one Metric, its own, per active and
\* logged block and none else, under unique names, and header[1:] lists
\* those blocks' names in block order after the Seconds column.
C5_CatalogMembershipAndOrder ==
    pc = "built" =>
        /\ header = << "Seconds" >> \o [i \in 1..Len(LoggedBlocks) |-> LoggedBlocks[i].name]
        /\ DOMAIN metrics = {LoggedBlocks[i].name : i \in 1..Len(LoggedBlocks)}
        /\ Cardinality(DOMAIN metrics) = Len(LoggedBlocks)
        /\ Len(header) - 1 = Cardinality(DOMAIN metrics)
        /\ \A n \in DOMAIN metrics : metrics[n].metric = n

\* C6: a cell that does not convert never ends the run: parse_logs skips the
\* value and goes on.
C6_CellFailureIsolated ==
    ~ (pc = "failed" /\ err = "ValueError")

\* C7: with the watermark at the epoch, a run constructs one Point per row
\* and catalog metric, at the row's timestamp, with an integer value for a
\* Fan metric and a floating-point value for the others.
C7_OnePointPerRowAndMetric ==
    (pc = "done" /\ last = Epoch) =>
        /\ Len(emitted) = Cardinality(AllRows) * Cardinality(DOMAIN metrics)
        /\ \A i \in 1..Len(emitted) :
             LET e == emitted[i]
             IN  /\ e.point.time = RowInstant(e.file, e.row)
                 /\ \E k \in 1..Len(LoggedBlocks) :
                      /\ LoggedBlocks[k].name = e.point.metric
                      /\ e.point.value.type =
                            (IF LoggedBlocks[k].kind = "Fan" THEN "int" ELSE "float")

C8_OrderState ==
    /\ resolved <= 1
    /\ (opened # {} \/ emitted # << >> \/ writes > 0 \/ store # store0)
           => (bi > Len(blocks) /\ resolved = 1 /\ Resolved)
    /\ (pc = "failed" /\ err \in {"UnboundLocalError", "StoreError"})
           => (store = store0 /\ writes = 0 /\ emitted = << >> /\ opened = {})

C8_OrderStep ==
    pc \in {"files", "rows"} =>
        /\ header' = header
        /\ metrics' = metrics
        /\ last' = last
        /\ resolved' = resolved

\* C8: the catalog is complete and the watermark resolved exactly once before
\* a file is opened or a Point constructed or written; a failure of either
\* ends the run with the store untouched; the loop over the files changes
\* neither the catalog nor the watermark.
C8_RunOrdering == [] C8_OrderState /\ [][C8_OrderStep]_vars

C8_Witness ==
    /\ pc = "done"
    /\ Cardinality(opened) = 2
    /\ emitted # << >>
    /\ last # Epoch

\* C9: a file dated before the watermark's date yields no Point, whatever its
\* rows; a file dated on or after it is opened and is filtered row by row.
C9_FileLevelSkip ==
    /\ \A k \in 1..Len(emitted) : ~ Older(emitted[k].file)
    /\ Resolved =>
         \A i \in 1..Len(logdir) :
            /\ fi > i => (i \in opened <=> ~ Older(i))
            /\ (fi > i /\ i \in opened /\ Len(header) > 1) =>
                 \A j \in 1..Len(logdir[i].rows) :
                    << i, j >> \in RowsOf(emitted) <=> ~ (RowInstant(i, j) < last)

C9_Witness ==
    /\ pc = "done"
    /\ \E i, k \in 1..Len(logdir) :
         /\ Older(i) /\ logdir[i].rows # << >>
         /\ ~ Older(k) /\ k \in opened
         /\ \E j \in 1..Len(logdir[k].rows) : RowInstant(k, j) < last
    /\ Len(header) > 1

\* The run of parse_logs with the row filter alone: every file is opened.
RECURSIVE RowFilterOnly(_, _, _)
RowFilterOnly(i, j, st) ==
    IF ~ st.ok \/ i > Len(logdir)
    THEN st
    ELSE IF j > Len(logdir[i].rows)
         THEN RowFilterOnly(i + 1, 1, st)
         ELSE RowFilterOnly(i, j + 1,
                  IF RowInstant(i, j) < last
                  THEN st
                  ELSE EmitCells(2, RowInstant(i, j), logdir[i].rows[j], i, j, st))

RowFilterOnlyPoints ==
    Points(RowFilterOnly(1, 1, [buffer |-> EmptyBuffers, store |-> store0,
                                emitted |-> << >>, writes |-> 0, ok |-> TRUE]).emitted)

\* parse_logs has ended: it returned, or a cell raised.
Ended == pc = "done" \/ (pc = "failed" /\ err = "ValueError")

\* C10 as stated: for every elapsed-seconds value, 86400 and more included,
\* the Points a run emits are those it emits with the row filter alone.
C10_SkipLosslessAnyElapsed ==
    Ended => Points(emitted) = RowFilterOnlyPoints

\* Every row falls on its file's date, in local time.
RowsWithinFileDate ==
    \A r \in AllRows : (RowInstant(r[1], r[2]) + TzOffset) \div DayLen = logdir[r[1]].day

\* C10, amended: when every row falls on its file's date, the Points a run
\* emits are those it emits with the row filter alone.
C10_SkipLosslessWithinDate ==
    (Ended /\ RowsWithinFileDate) => Points(emitted) = RowFilterOnlyPoints

C10_Witness ==
    /\ Ended
    /\ RowsWithinFileDate
    /\ emitted # << >>
    /\ \E i \in 1..Len(logdir) : i \notin opened /\ logdir[i].rows # << >>

====
